---- MODULE Spec2Model ----
(***************************************************************************)
(* Model of gillespie() of GillespieJupyter.ipynb: the direct-method SSA   *)
(* loop of the wise/risky SIR model, its preallocated result buffer        *)
(* SIR_data and the slice of it that is handed to the plotting code.       *)
(*                                                                         *)
(* Reals are modelled exactly.  Rate constants are integers (multiples of  *)
(* one rate unit), so the seven weights and their sum are integers and     *)
(* every comparison  r_2 < (w1+..+wk)/W  is a comparison of fractions.     *)
(* Times are extended rationals n/d (d = 0 for +inf, -inf and nan, the     *)
(* values IEEE arithmetic yields for log(0) and for a division by 0.0).    *)
(***************************************************************************)
EXTENDS Integers, Sequences, FiniteSets, TLC

\* ------------------------------------------------------------- bounds ---
\* The notebook fixes N = 200, n_R = 50, T = 100.0 and MAXITER = 10000;
\* the model keeps their roles and scales the values down.
N == 3
RISKY0 == 1
T == 1
MAXITER == 3

\* n_I = 1, the initial infected population
INFECTED0 == 1

\* Values a rate constant can take: the ends of the slider range [0, 1].
SliderRates == {0, 1}
\* Values a direct call gillespie(rWiseToRisky = x, ...) can pass.
AnyRates == {-1, 0, 1}

Channels == 1..7

\* ------------------------------------------------------ number helpers ---
Abs(x) == IF x < 0 THEN -x ELSE x

Sgn(x) == IF x < 0 THEN -1 ELSE IF x > 0 THEN 1 ELSE 0

RECURSIVE GCD(_, _)
GCD(x, y) == IF y = 0 THEN x ELSE GCD(y, x % y)

\* Extended rationals standing for float values.
Fin(n, d) == LET g == GCD(Abs(n), Abs(d)) IN [n |-> (Sgn(d) * n) \div g, d |-> Abs(d) \div g]

PosInf == [n |-> 1, d |-> 0]

NegInf == [n |-> -1, d |-> 0]

NaN == [n |-> 0, d |-> 0]

IsFinite(x) == x.d > 0

\* float x < y (false as soon as a nan is involved)
FloatLess(x, y) ==
    IF x = NaN \/ y = NaN THEN FALSE
    ELSE IF IsFinite(x) /\ IsFinite(y) THEN x.n * y.d < y.n * x.d
    ELSE IF x = y THEN FALSE
    ELSE x = NegInf \/ y = PosInf

\* float x + y
FloatAdd(x, y) ==
    IF x = NaN \/ y = NaN THEN NaN
    ELSE IF IsFinite(x) /\ IsFinite(y) THEN Fin(x.n * y.d + y.n * x.d, x.d * y.d)
    ELSE IF IsFinite(x) THEN y
    ELSE IF IsFinite(y) THEN x
    ELSE IF x = y THEN x ELSE NaN

\* FloatDiv with the floor division x // W in the place of x / W.
FloatDivFloor(x, W) ==
    IF W = 0 THEN PosInf
    ELSE IF IsFinite(x) THEN Fin((x.n * Sgn(W)) \div (x.d * Abs(W)), 1)
    ELSE IF W > 0 THEN PosInf ELSE NegInf

\* numpy float x / W for x > 0 (x is -log(r_1)); a division by 0.0 gives inf
\* with a RuntimeWarning, it does not raise.
FloatDiv(x, W) ==
    IF W = 0 THEN PosInf
    ELSE IF IsFinite(x) THEN Fin(x.n * Sgn(W), x.d * Abs(W))
    ELSE IF W > 0 THEN PosInf ELSE NegInf

\* ------------------------------------------------------------- state ---
VARIABLES
    rate,       \* the seven keyword arguments of gillespie()
    t,          \* current time
    n_W, n_I, n_R, n_S, n_D,
    it,         \* iteration counter
    SIR_data,   \* the MAXITER x 6 result buffer, rows 0..MAXITER-1
    SIR,        \* SIR_data[:it,:], the rows handed to the plotting code
    fired,      \* the if-blocks of the reaction choice executed by the last iteration
    pc,         \* "loop", "done" (loop left, SIR sliced) or "raised"
    exit,       \* how the loop was left
    err         \* the exception raised

vars == <<rate, t, n_W, n_I, n_R, n_S, n_D, it, SIR_data, SIR, fired, pc, exit, err>>

Row(time, W, I, R, S, D) == <<time, W, I, R, S, D>>

ZeroRow == Row(Fin(0, 1), 0, 0, 0, 0, 0)

Counts == [W |-> n_W, I |-> n_I, R |-> n_R, S |-> n_S, D |-> n_D]

\* --------------------------------------------------- rates and weights ---
\* Weights with the two infection rates b and c exchanged.
WeightsSwapped(r, s) ==
    << r.a * s.W,
       r.alpha * s.R,
       r.b * s.I * s.R,
       r.c * s.I * s.W,
       r.beta * s.I,
       r.d * s.I,
       r.rho * s.I >>

\* w1..w7
Weights(r, s) ==
    << r.a * s.W,
       r.alpha * s.R,
       r.c * s.I * s.R,
       r.b * s.I * s.W,
       r.beta * s.I,
       r.d * s.I,
       r.rho * s.I >>

\* w1 + ... + wj
RECURSIVE Cum(_, _)
Cum(w, j) == IF j = 0 THEN 0 ELSE Cum(w, j - 1) + w[j]

\* W = w1 + w2 + w3 + w4 + w5 + w6 + w7
Wtot(w) == Cum(w, 7)

\* r_2 < x / W   for a draw r_2 = r.num / r.den (r.den > 0) and W # 0
Below(r, x, W) == r.num * Abs(W) < Sgn(W) * x * r.den

\* r_2 > x / W
Above(r, x, W) == r.num * Abs(W) > Sgn(W) * x * r.den

\* Cond with the upper boundary of every interval closed (r_2 <= instead of
\* r_2 <), the lower one open.
CondClosedAbove(j, r, w, W) ==
    IF j = 1 THEN ~Above(r, Cum(w, 1), W)
    ELSE Above(r, Cum(w, j - 1), W) /\ ~Above(r, Cum(w, j), W)

\* the condition of the j-th if of the reaction choice
Cond(j, r, w, W) ==
    IF j = 1 THEN Below(r, Cum(w, 1), W)
    ELSE IF j = 7 THEN Above(r, Cum(w, 6), W)
    ELSE ~Below(r, Cum(w, j - 1), W) /\ Below(r, Cum(w, j), W)

\* Delta with the third if-body losing its  n_R = n_R - 1.
DeltaNoDecrement(j, s) ==
    CASE j = 1 -> [s EXCEPT !.W = @ - 1, !.R = @ + 1]
      [] j = 2 -> [s EXCEPT !.R = @ - 1, !.W = @ + 1]
      [] j = 3 -> [s EXCEPT !.I = @ + 1]
      [] j = 4 -> [s EXCEPT !.W = @ - 1, !.I = @ + 1]
      [] j = 5 -> [s EXCEPT !.I = @ - 1, !.W = @ + 1]
      [] j = 6 -> [s EXCEPT !.I = @ - 1, !.D = @ + 1]
      [] j = 7 -> [s EXCEPT !.I = @ - 1, !.S = @ + 1]

\* Delta with the sixth if-body counting the dead as saved (n_S for n_D).
DeltaDeadAsSaved(j, s) ==
    CASE j = 1 -> [s EXCEPT !.W = @ - 1, !.R = @ + 1]
      [] j = 2 -> [s EXCEPT !.R = @ - 1, !.W = @ + 1]
      [] j = 3 -> [s EXCEPT !.R = @ - 1, !.I = @ + 1]
      [] j = 4 -> [s EXCEPT !.W = @ - 1, !.I = @ + 1]
      [] j = 5 -> [s EXCEPT !.I = @ - 1, !.W = @ + 1]
      [] j = 6 -> [s EXCEPT !.I = @ - 1, !.S = @ + 1]
      [] j = 7 -> [s EXCEPT !.I = @ - 1, !.S = @ + 1]

\* the body of the j-th if
Delta(j, s) ==
    CASE j = 1 -> [s EXCEPT !.W = @ - 1, !.R = @ + 1]
      [] j = 2 -> [s EXCEPT !.R = @ - 1, !.W = @ + 1]
      [] j = 3 -> [s EXCEPT !.R = @ - 1, !.I = @ + 1]
      [] j = 4 -> [s EXCEPT !.W = @ - 1, !.I = @ + 1]
      [] j = 5 -> [s EXCEPT !.I = @ - 1, !.W = @ + 1]
      [] j = 6 -> [s EXCEPT !.I = @ - 1, !.D = @ + 1]
      [] j = 7 -> [s EXCEPT !.I = @ - 1, !.S = @ + 1]

\* The seven ifs are tested one after the other on w1..w7, W and r_2, none
\* of which an if-body changes: the blocks executed, in order.
Fired(r, w, W) == SelectSeq(<<1, 2, 3, 4, 5, 6, 7>>, LAMBDA j : Cond(j, r, w, W))

RECURSIVE ApplyAll(_, _)
ApplyAll(js, s) == IF js = <<>> THEN s ELSE ApplyAll(Tail(js), Delta(Head(js), s))

\* ------------------------------------------------------------- draws ---
\* -np.log(r_1) for r_1 = np.random.uniform(0.0, 1.0), a value of [0, 1):
\* positive and finite (one time unit here, so that dt = 1 / W) for
\* r_1 > 0, and +inf for r_1 = 0.0.
LogDraws == {Fin(1, 1), PosInf}

\* r_2 = np.random.uniform(0.0, 1.0): the points k / (2|W|) of [0, 1), which
\* are every cumulative boundary (w1+..+wj)/W that lies in [0, 1) and one
\* point strictly between any two neighbouring boundaries.
R2Draws(W) == {[num |-> k, den |-> 2 * Abs(W)] : k \in 0..(2 * Abs(W) - 1)}

\* -------------------------------------------------------------- init ---
RateRecords(V) == [a : V, alpha : V, b : V, c : V, beta : V, d : V, rho : V]

\* The "Input parameters" block and the initialisation of the results list,
\* for an initial infected population n_I = I0.
StartWith(V, I0) ==
    /\ rate \in RateRecords(V)
    /\ t = Fin(0, 1)
    /\ n_I = I0
    /\ n_D = 0
    /\ n_S = 0
    /\ n_R = RISKY0
    /\ n_W = N - I0 - RISKY0
    /\ SIR_data = [i \in 0..(MAXITER - 1) |->
                     IF i = 0 THEN Row(Fin(0, 1), N - I0 - RISKY0, I0, RISKY0, 0, 0)
                     ELSE ZeroRow]
    /\ it = 0
    /\ SIR = <<>>
    /\ fired = <<>>
    /\ pc = "loop"
    /\ exit = "none"
    /\ err = "none"

Start(V) == StartWith(V, INFECTED0)

Init == Start(SliderRates)

InitAnyRates == Start(AnyRates)

\* The input parameter n_I edited in the source: no or one initial infected.
InitAnyInfected == \E I0 \in {0, INFECTED0} : StartWith(SliderRates, I0)

\* ------------------------------------------------------------ actions ---
\* ExtinctCond with the test left out: the loop never breaks.
ExtinctCondNever == FALSE

\* if n_I == 0
ExtinctCond == n_I = 0

\* while t < T and it < MAXITER
WhileCond == FloatLess(t, Fin(T, 1)) /\ it < MAXITER

\* SIR = SIR_data[:it,:]
Slice(data, n) == [i \in 1..n |-> data[i - 1]]

\* The while condition is false: the loop is left and the rows are sliced.
WhileExit ==
    /\ pc = "loop"
    /\ ~WhileCond
    /\ exit' = IF ~FloatLess(t, Fin(T, 1)) THEN "HorizonReached" ELSE "IterationCapReached"
    /\ SIR' = Slice(SIR_data, it)
    /\ pc' = "done"
    /\ UNCHANGED <<rate, t, n_W, n_I, n_R, n_S, n_D, it, SIR_data, fired, err>>

\* if n_I == 0: break
Break ==
    /\ pc = "loop"
    /\ WhileCond
    /\ ExtinctCond
    /\ exit' = "Extinction"
    /\ SIR' = Slice(SIR_data, it)
    /\ pc' = "done"
    /\ UNCHANGED <<rate, t, n_W, n_I, n_R, n_S, n_D, it, SIR_data, fired, err>>

\* One pass of the loop body that reaches the end of the body.
Iterate(e, r) ==
    LET w == Weights(rate, Counts)
        W == Wtot(w)
        js == Fired(r, w, W)
        s == ApplyAll(js, Counts)
        t1 == FloatAdd(t, FloatDiv(e, W))
    IN  /\ pc = "loop"
        /\ WhileCond
        /\ ~ExtinctCond
        /\ W # 0
        /\ r \in R2Draws(W)
        /\ it + 1 \in DOMAIN SIR_data
        /\ it' = it + 1
        /\ t' = t1
        /\ fired' = js
        /\ n_W' = s.W /\ n_I' = s.I /\ n_R' = s.R /\ n_S' = s.S /\ n_D' = s.D
        /\ SIR_data' = [SIR_data EXCEPT ![it + 1] = Row(t1, s.W, s.I, s.R, s.S, s.D)]
        /\ UNCHANGED <<rate, SIR, pc, exit, err>>

\* One pass whose write SIR_data[it, :] = ... is out of the buffer's rows.
IterateIndexError(e, r) ==
    LET w == Weights(rate, Counts)
        W == Wtot(w)
        js == Fired(r, w, W)
        s == ApplyAll(js, Counts)
    IN  /\ pc = "loop"
        /\ WhileCond
        /\ ~ExtinctCond
        /\ W # 0
        /\ r \in R2Draws(W)
        /\ it + 1 \notin DOMAIN SIR_data
        /\ it' = it + 1
        /\ t' = FloatAdd(t, FloatDiv(e, W))
        /\ fired' = js
        /\ n_W' = s.W /\ n_I' = s.I /\ n_R' = s.R /\ n_S' = s.S /\ n_D' = s.D
        /\ pc' = "raised"
        /\ err' = "IndexError"
        /\ UNCHANGED <<rate, SIR_data, SIR, exit>>

\* One pass with W = 0: dt = -np.log(r_1) / W is inf, then w1 / W, a
\* division of Python floats, raises.
IterateZeroDivision(e) ==
    LET W == Wtot(Weights(rate, Counts))
    IN  /\ pc = "loop"
        /\ WhileCond
        /\ ~ExtinctCond
        /\ W = 0
        /\ it' = it + 1
        /\ t' = FloatAdd(t, FloatDiv(e, W))
        /\ pc' = "raised"
        /\ err' = "ZeroDivisionError"
        /\ UNCHANGED <<rate, n_W, n_I, n_R, n_S, n_D, SIR_data, SIR, fired, exit>>

Next ==
    \/ WhileExit
    \/ Break
    \/ \E e \in LogDraws : \E r \in R2Draws(Wtot(Weights(rate, Counts))) : Iterate(e, r)
    \/ \E e \in LogDraws : \E r \in R2Draws(Wtot(Weights(rate, Counts))) : IterateIndexError(e, r)
    \/ \E e \in LogDraws : IterateZeroDivision(e)

\* rate constants within the slider ranges
Spec == Init /\ [][Next]_vars

\* rate constants of any sign
SpecAnyRates == InitAnyRates /\ [][Next]_vars

\* rate constants within the slider ranges, n_I = 0 or 1 at the start
SpecAnyInfected == InitAnyInfected /\ [][Next]_vars

\* ------------------------------------------------------------- claims ---
\* Columns of a row of SIR_data: [t, n_W, n_I, n_R, n_S, n_D].
TimeOf(row) == row[1]

InfectedOf(row) == row[3]

RowSum(row) == row[2] + row[3] + row[4] + row[5] + row[6]

\* The rows of SIR_data written so far: row 0 before the loop, row it by each
\* pass that reached its last statement.
Recorded == 0..(IF pc = "raised" THEN it - 1 ELSE it)

\* float x >= y
FloatGeq(x, y) == x # NaN /\ y # NaN /\ ~FloatLess(x, y)

\* The loop is entered with the current state: the while condition holds and
\* the break is not taken.
BodyEntered == pc = "loop" /\ WhileCond /\ ~ExtinctCond

\* C1: in every reachable state, and in every recorded and every handed-over
\* sample, W + R + I + S + D equals the population size N.
C1_PopulationConserved ==
    /\ n_W + n_R + n_I + n_S + n_D = N
    /\ \A i \in Recorded : RowSum(SIR_data[i]) = N
    /\ \A i \in 1..Len(SIR) : RowSum(SIR[i]) = N

\* Two passes have fired reactions and moved individuals out of the initial
\* compartments.
C1_Witness ==
    /\ it = 2
    /\ pc = "loop"
    /\ fired # <<>>
    /\ n_S + n_D > 0
    /\ SIR_data[1] # SIR_data[0]
    /\ SIR_data[2] # SIR_data[1]

\* C2: with non-negative rate constants and non-negative initial counts,
\* every species count is >= 0 in every state and every recorded sample,
\* whatever the draws r_2 of [0, 1), boundary draws included.
C2_NonNegative ==
    /\ \A x \in {n_W, n_R, n_I, n_S, n_D} : x >= 0
    /\ \A i \in Recorded : \A k \in 2..6 : SIR_data[i][k] >= 0
    /\ \A i \in 1..Len(SIR) : \A k \in 2..6 : SIR[i][k] >= 0

\* A pass has emptied a compartment that was occupied at the start (the wise
\* or the risky one), the next pass drew r_2 exactly on the boundary
\* (w1+..+w6)/W, where none of the seven conditions holds, and the loop
\* goes on.
C2_Witness ==
    /\ BodyEntered
    /\ it = 2
    /\ fired = <<>>
    /\ (n_W = 0 \/ n_R = 0)
    /\ \A x \in {rate.a, rate.alpha, rate.b, rate.c, rate.beta, rate.d, rate.rho} : x >= 0

\* C3: when neither I == 0 nor t >= T has stopped the run before its
\* MAXITER-th firing, that firing is recorded without an error and the run
\* then stops with reason IterationCapReached and MAXITER + 1 samples.
C3_IterationCap ==
    it = MAXITER =>
        /\ err = "none"
        /\ pc # "raised"
        /\ (pc = "done" => exit = "IterationCapReached" /\ Len(SIR) = MAXITER + 1)

\* C4: a run that ends after k firings hands over exactly k + 1 samples, the
\* initial one and the one recorded after each firing, the last included.
C4_TrajectoryLength ==
    pc = "done" =>
        /\ Len(SIR) = it + 1
        /\ \A i \in 0..it : i \in DOMAIN SIR_data /\ SIR[i + 1] = SIR_data[i]

\* C5: when the run stops because I == 0, the final sample handed over has
\* I = 0.
C5_ExtinctionOutcome ==
    (pc = "done" /\ exit = "Extinction") =>
        /\ Len(SIR) > 0
        /\ InfectedOf(SIR[Len(SIR)]) = 0

\* C6: when the run stops because t >= T, the final sample handed over has
\* time >= T and every earlier sample has time < T.
C6_HorizonOutcome ==
    (pc = "done" /\ exit = "HorizonReached") =>
        /\ Len(SIR) > 0
        /\ FloatGeq(TimeOf(SIR[Len(SIR)]), Fin(T, 1))
        /\ \A i \in 1..(Len(SIR) - 1) : FloatLess(TimeOf(SIR[i]), Fin(T, 1))

\* The smallest index j with (p[1] + ... + p[j]) / W_tot >= r_2.
ClosedUpperChannel(r, w, W) ==
    CHOOSE j \in Channels :
        /\ ~Above(r, Cum(w, j), W)
        /\ \A i \in 1..(j - 1) : Above(r, Cum(w, i), W)

\* C7: in every pass with W_tot > 0 and draw r_2, exactly the channel with
\* the smallest index j such that (p[1] + ... + p[j]) / W_tot >= r_2 is
\* fired (a draw on a cumulative boundary fires the lower-indexed channel).
\* Stated for the draws r_2 > 0, those of the open interval (0, 1).
C7_ReactionSelection ==
    [][\A e \in LogDraws : \A r \in R2Draws(Wtot(Weights(rate, Counts))) :
          ((Iterate(e, r) \/ IterateIndexError(e, r)) /\ Wtot(Weights(rate, Counts)) > 0 /\ r.num > 0)
              => fired' = <<ClosedUpperChannel(r, Weights(rate, Counts), Wtot(Weights(rate, Counts)))>>]_vars

\* C8: a pass entered with I > 0 and W_tot <= 0 stops the run as
\* Extinction: t is not advanced, no reaction is fired, no error is raised.
C8_ZeroPropensity ==
    [][(BodyEntered /\ n_I > 0 /\ Wtot(Weights(rate, Counts)) <= 0)
          => /\ pc' = "done"
             /\ exit' = "Extinction"
             /\ err' = "none"
             /\ t' = t
             /\ <<n_W, n_I, n_R, n_S, n_D>>' = <<n_W, n_I, n_R, n_S, n_D>>]_vars

\* C9: a run ends after at most MAXITER firings and only with one of the
\* reasons Extinction (I == 0), HorizonReached (t >= T), IterationCapReached
\* (it >= MAXITER); it ends in no other way.
C9_TerminationCoverage ==
    /\ it <= MAXITER
    /\ pc # "loop" =>
        /\ pc = "done"
        /\ err = "none"
        /\ exit \in {"Extinction", "HorizonReached", "IterationCapReached"}
        /\ exit = "Extinction" => n_I = 0
        /\ exit = "HorizonReached" => FloatGeq(t, Fin(T, 1))
        /\ exit = "IterationCapReached" => it >= MAXITER

\* a rate constant is negative
NegativeRate ==
    \E x \in {rate.a, rate.alpha, rate.b, rate.c, rate.beta, rate.d, rate.rho} : x < 0

\* C10: a configuration with a negative rate constant is rejected with a
\* validation error before the first pass of the loop: the loop is never
\* entered, no firing is recorded and no trajectory is handed over.
C10_ConfigurationValidated ==
    NegativeRate =>
        /\ it = 0
        /\ pc # "done"
        /\ err \in {"none", "ConfigurationError"}
        /\ \A i \in 1..(MAXITER - 1) : SIR_data[i] = ZeroRow

SavedOf(row) == row[5]

DeadOf(row) == row[6]

\* the channels of a sequence of executed if-blocks
Range(js) == {js[k] : k \in 1..Len(js)}

\* C13: across consecutive samples S and D never decrease; S changes only
\* in a pass that fires channel 7 (I -> S) and D only in a pass that fires
\* channel 6 (I -> D), each time by exactly +1.
C13_MonotoneSinks ==
    [][/\ n_S' # n_S => (it' = it + 1 /\ 7 \in Range(fired') /\ n_S' = n_S + 1)
       /\ n_D' # n_D => (it' = it + 1 /\ 6 \in Range(fired') /\ n_D' = n_D + 1)
       /\ \A i \in Recorded' \ {0} :
             /\ SavedOf(SIR_data'[i]) - SavedOf(SIR_data'[i - 1]) \in {0, 1}
             /\ DeadOf(SIR_data'[i]) - DeadOf(SIR_data'[i - 1]) \in {0, 1}]_vars

\* An infection in the first pass, then channel 6 fired in the second one:
\* D grew by one between the last two samples, S did not move.
C13_Witness ==
    /\ it = 2
    /\ pc = "loop"
    /\ fired = <<6>>
    /\ DeadOf(SIR_data[1]) = 0
    /\ DeadOf(SIR_data[2]) = 1
    /\ SavedOf(SIR_data[2]) = SavedOf(SIR_data[1])
    /\ n_I = 1

\* The reaction table: rate law and change of (W, R, I, S, D) per channel.
TablePropensity ==
    << rate.a * n_W,
       rate.alpha * n_R,
       rate.c * n_I * n_R,
       rate.b * n_I * n_W,
       rate.beta * n_I,
       rate.d * n_I,
       rate.rho * n_I >>

TableChange ==
    << <<-1, 1, 0, 0, 0>>,
       <<1, -1, 0, 0, 0>>,
       <<0, -1, 1, 0, 0>>,
       <<-1, 0, 1, 0, 0>>,
       <<1, 0, -1, 0, 0>>,
       <<0, 0, -1, 0, 1>>,
       <<0, 0, -1, 1, 0>> >>

RECURSIVE TotalChange(_)
TotalChange(js) ==
    IF js = <<>> THEN <<0, 0, 0, 0, 0>>
    ELSE LET rest == TotalChange(Tail(js))
         IN  [k \in 1..5 |-> TableChange[Head(js)][k] + rest[k]]

\* C14: in every state the seven propensities are, in order, a*W, alpha*R,
\* c*I*R, b*I*W, beta*I, d*I, rho*I, and a pass that fires channel j changes
\* (W, R, I, S, D) by exactly the fixed delta of j: 1: W-1,R+1; 2: R-1,W+1;
\* 3: R-1,I+1; 4: W-1,I+1; 5: I-1,W+1; 6: I-1,D+1; 7: I-1,S+1.
C14_ReactionTable ==
    [][/\ Weights(rate, Counts) = TablePropensity
       /\ (Weights(rate, Counts) = TablePropensity)'
       /\ (it' = it + 1 /\ err' # "ZeroDivisionError") =>
             <<n_W' - n_W, n_R' - n_R, n_I' - n_I, n_S' - n_S, n_D' - n_D>> = TotalChange(fired')
       /\ it' = it => <<n_W', n_R', n_I', n_S', n_D'>> = <<n_W, n_R, n_I, n_S, n_D>>]_vars

\* Both infection channels have been fired, channel 4 in the first pass and
\* channel 3 in the second, with rates b and c that differ.
C14_Witness ==
    /\ it = 2
    /\ pc = "loop"
    /\ fired = <<3>>
    /\ rate.b # rate.c
    /\ n_I = 2
    /\ n_R = RISKY0 - 1

\* C16: every pass that records a sample applies exactly one of the seven
\* channels, never none and never two, whatever the draw r_2 of [0, 1),
\* boundary draws included, so the sample differs from the previous one by
\* exactly one channel's delta.
C16_ExactlyOneFiring ==
    \A i \in Recorded \ {0} :
        /\ i = it => Len(fired) = 1
        /\ \E j \in Channels :
              <<SIR_data[i][2] - SIR_data[i - 1][2],
                SIR_data[i][4] - SIR_data[i - 1][4],
                SIR_data[i][3] - SIR_data[i - 1][3],
                SIR_data[i][5] - SIR_data[i - 1][5],
                SIR_data[i][6] - SIR_data[i - 1][6]>> = TableChange[j]

\* the count of the species channel j consumes
SourceCount(j) == IF j \in {1, 4} THEN n_W ELSE IF j \in {2, 3} THEN n_R ELSE n_I

\* C17: a channel whose propensity is zero is never selected: every
\* channel j fired by a pass has p[j] > 0 in the state the pass starts from,
\* so its source species (W for 1 and 4, R for 2 and 3, I for 5, 6, 7) is
\* not empty.
C17_ZeroPropensityNeverFired ==
    [][(it' = it + 1 /\ err' # "ZeroDivisionError") =>
          \A j \in Range(fired') :
              /\ Weights(rate, Counts)[j] > 0
              /\ SourceCount(j) > 0]_vars

\* The second pass started with no wise individual left (channels 1 and 4
\* have zero propensity although a and b are positive), and it fired a
\* channel.
C17_Witness ==
    /\ it = 2
    /\ pc = "loop"
    /\ SIR_data[1][2] = 0
    /\ rate.a > 0
    /\ rate.b > 0
    /\ fired # <<>>

\* C18: once a state with I == 0 is reached no further reaction is fired,
\* t is not advanced and no further sample is recorded, even when channels
\* 1 (W -> R) and 2 (R -> W) still have positive propensity.
C18_ExtinctionAbsorbing ==
    [][n_I = 0 =>
          /\ <<n_W, n_I, n_R, n_S, n_D>>' = <<n_W, n_I, n_R, n_S, n_D>>
          /\ t' = t
          /\ it' = it
          /\ fired' = fired
          /\ SIR_data' = SIR_data
          /\ err' = "none"]_vars

\* The loop was left by the break with time and iterations to spare while
\* channels 1 and 2 still had positive propensity.
C18_Witness ==
    /\ pc = "done"
    /\ exit = "Extinction"
    /\ n_I = 0
    /\ it < MAXITER - 1
    /\ Weights(rate, Counts)[1] > 0
    /\ Weights(rate, Counts)[2] > 0

\* no rate constant is negative
NonNegativeRates ==
    \A x \in {rate.a, rate.alpha, rate.b, rate.c, rate.beta, rate.d, rate.rho} : x >= 0

\* C19: with non-negative rate constants of which beta, d or rho is
\* positive, W > 0 in every pass that reaches the waiting-time computation
\* (the body runs only with I > 0), so no division by W is undefined.
C19_DivisionSafety ==
    (NonNegativeRates /\ rate.beta + rate.d + rate.rho > 0) =>
        /\ BodyEntered => (n_I > 0 /\ Wtot(Weights(rate, Counts)) > 0)
        /\ err # "ZeroDivisionError"

\* A third pass is about to start in a configuration whose only positive
\* weights are those of the channels that consume I.
C19_Witness ==
    /\ BodyEntered
    /\ it = 2
    /\ rate.a = 0
    /\ rate.alpha = 0
    /\ rate.beta + rate.d + rate.rho > 0
    /\ Weights(rate, Counts)[3] = 0
    /\ Weights(rate, Counts)[4] = 0

====
